---- MODULE Spec2Model ----
(***************************************************************************)
(* Model of the interactive pickers of wt: the fuzzy scorer                *)
(* (internal/fuzzy/fuzzy.go), the worktree picker (tui.model) and the      *)
(* branch picker with disabled entries (tui.branchModel).                  *)
(*                                                                         *)
(* Strings are sequences of runes (code points, as []rune(s) in Go).       *)
(* Slice indices are 0-based as in the source; At(s, i) reads s[i].        *)
(* Fields that only the renderer reads (Entry.Rel, Entry.IsMain,           *)
(* BranchEntry.Source, branchModel.header) are left out.                   *)
(*                                                                         *)
(* Spec and SpecNav run a picker session; SpecScore runs one               *)
(* call of fuzzy.Score(scoreStr, scorePattern), result in scoreMatch.      *)
(***************************************************************************)
EXTENDS Integers, Sequences, FiniteSets, TLC

VARIABLES kind, m, pc, msg, result, scoreStr, scorePattern, scoreMatch

vars == <<kind, m, pc, msg, result, scoreStr, scorePattern, scoreMatch>>

\* ------------------------------------------------------------------ bounds
MaxEntries == 3
MaxQueryLen == 2

\* ------------------------------------------------------------------ helpers
At(s, i) == s[i + 1]

max(a, b) == IF a > b THEN a ELSE b

\* Names of the candidates of a session: "ab", "a-b", "Ba".
Names == { <<97, 98>>, <<97, 45, 98>>, <<66, 97>> }

\* Runes the user types into the text input: 'a', 'b'.
TypedRunes == { 97, 98 }

RECURSIVE SeqsUpTo(_, _)
SeqsUpTo(S, n) ==
    IF n = 0 THEN { <<>> }
    ELSE LET shorter == SeqsUpTo(S, n - 1)
         IN shorter \cup { Append(s, x) : s \in shorter, x \in S }

\* ------------------------------------------------------------ fuzzy scorer
bonusFirstChar == 16
bonusCamelCase == 16
bonusSeparator == 16
bonusAdjacent == 8
penaltyLeadingGap == -3
penaltyGap == -1

\* Mutant: only '-' separates words.
isSeparatorDashOnly(r) == r = 45

isSeparator(r) == r = 45 \/ r = 95 \/ r = 46 \/ r = 47

isLower(r) == r >= 97 /\ r <= 122

isUpper(r) == r >= 65 /\ r <= 90

\* Mutant: only the first rune is folded.
toLowerFirstRune(s) ==
    [i \in 1..Len(s) |-> IF i = 1 /\ s[i] >= 65 /\ s[i] <= 90 THEN s[i] + 32 ELSE s[i]]

toLower(s) == [i \in 1..Len(s) |-> IF s[i] >= 65 /\ s[i] <= 90 THEN s[i] + 32 ELSE s[i]]

\* The zero value of fuzzy.Match, also every "no match" return of Score.
NoMatch == [Score |-> 0, Matched |-> FALSE, Positions |-> <<>>]

\* Mutant: no bonus for a match next to the previous match.
MatchDeltaNoAdjacency(origRunes, si, pi, prevMatchIdx) ==
    (IF pi = 0 THEN si * penaltyLeadingGap
     ELSE IF si - prevMatchIdx - 1 > 0 THEN (si - prevMatchIdx - 1) * penaltyGap ELSE 0)
    + (IF si = 0 THEN bonusFirstChar ELSE 0)
    + (IF si > 0 /\ isSeparator(At(origRunes, si - 1)) THEN bonusSeparator ELSE 0)
    + (IF si > 0 /\ isLower(At(origRunes, si - 1)) /\ isUpper(At(origRunes, si))
       THEN bonusCamelCase ELSE 0)

\* Mutant: a gap between two matches costs penaltyGap once, whatever its length.
MatchDeltaFlatGap(origRunes, si, pi, prevMatchIdx) ==
    (IF pi = 0 THEN si * penaltyLeadingGap
     ELSE IF si - prevMatchIdx - 1 > 0 THEN penaltyGap ELSE 0)
    + (IF si = 0 THEN bonusFirstChar ELSE 0)
    + (IF si > 0 /\ isSeparator(At(origRunes, si - 1)) THEN bonusSeparator ELSE 0)
    + (IF si > 0 /\ isLower(At(origRunes, si - 1)) /\ isUpper(At(origRunes, si))
       THEN bonusCamelCase ELSE 0)
    + (IF prevMatchIdx = si - 1 THEN bonusAdjacent ELSE 0)

\* One matched character at index si: the deltas of the loop body.
MatchDelta(origRunes, si, pi, prevMatchIdx) ==
    (IF pi = 0 THEN si * penaltyLeadingGap
     ELSE IF si - prevMatchIdx - 1 > 0 THEN (si - prevMatchIdx - 1) * penaltyGap ELSE 0)
    + (IF si = 0 THEN bonusFirstChar ELSE 0)
    + (IF si > 0 /\ isSeparator(At(origRunes, si - 1)) THEN bonusSeparator ELSE 0)
    + (IF si > 0 /\ isLower(At(origRunes, si - 1)) /\ isUpper(At(origRunes, si))
       THEN bonusCamelCase ELSE 0)
    + (IF prevMatchIdx = si - 1 THEN bonusAdjacent ELSE 0)

\* Mutant: a failed scan returns the score and positions it had collected.
RECURSIVE ScoreLoopKeepsPartial(_, _, _, _, _, _, _, _)
ScoreLoopKeepsPartial(strRunes, patRunes, origRunes, si, pi, prevMatchIdx, score, positions) ==
    IF si < Len(strRunes) /\ pi < Len(patRunes)
    THEN IF At(strRunes, si) # At(patRunes, pi)
         THEN ScoreLoopKeepsPartial(strRunes, patRunes, origRunes, si + 1, pi,
                                    prevMatchIdx, score, positions)
         ELSE ScoreLoopKeepsPartial(strRunes, patRunes, origRunes, si + 1, pi + 1, si,
                                    score + MatchDelta(origRunes, si, pi, prevMatchIdx),
                                    Append(positions, si))
    ELSE [Score |-> score, Matched |-> pi >= Len(patRunes), Positions |-> positions]

\* Mutant: a matched text rune is offered to the next pattern rune as well.
RECURSIVE ScoreLoopRescans(_, _, _, _, _, _, _, _)
ScoreLoopRescans(strRunes, patRunes, origRunes, si, pi, prevMatchIdx, score, positions) ==
    IF si < Len(strRunes) /\ pi < Len(patRunes)
    THEN IF At(strRunes, si) # At(patRunes, pi)
         THEN ScoreLoopRescans(strRunes, patRunes, origRunes, si + 1, pi, prevMatchIdx,
                               score, positions)
         ELSE ScoreLoopRescans(strRunes, patRunes, origRunes, si, pi + 1, si,
                               score + MatchDelta(origRunes, si, pi, prevMatchIdx),
                               Append(positions, si))
    ELSE IF pi < Len(patRunes)
         THEN NoMatch
         ELSE [Score |-> score, Matched |-> TRUE, Positions |-> positions]

\* Mutant: positions are recorded counting from 1.
RECURSIVE ScoreLoopOneBased(_, _, _, _, _, _, _, _)
ScoreLoopOneBased(strRunes, patRunes, origRunes, si, pi, prevMatchIdx, score, positions) ==
    IF si < Len(strRunes) /\ pi < Len(patRunes)
    THEN IF At(strRunes, si) # At(patRunes, pi)
         THEN ScoreLoopOneBased(strRunes, patRunes, origRunes, si + 1, pi, prevMatchIdx,
                                score, positions)
         ELSE ScoreLoopOneBased(strRunes, patRunes, origRunes, si + 1, pi + 1, si,
                                score + MatchDelta(origRunes, si, pi, prevMatchIdx),
                                Append(positions, si + 1))
    ELSE IF pi < Len(patRunes)
         THEN NoMatch
         ELSE [Score |-> score, Matched |-> TRUE, Positions |-> positions]

\* Mutant: a matching rune is passed over while the same rune occurs later
\* in the text.
RECURSIVE ScoreLoopLastOccurrence(_, _, _, _, _, _, _, _)
ScoreLoopLastOccurrence(strRunes, patRunes, origRunes, si, pi, prevMatchIdx, score, positions) ==
    IF si < Len(strRunes) /\ pi < Len(patRunes)
    THEN IF \/ At(strRunes, si) # At(patRunes, pi)
            \/ \E j \in (si + 1)..(Len(strRunes) - 1) : At(strRunes, j) = At(patRunes, pi)
         THEN ScoreLoopLastOccurrence(strRunes, patRunes, origRunes, si + 1, pi,
                                      prevMatchIdx, score, positions)
         ELSE ScoreLoopLastOccurrence(strRunes, patRunes, origRunes, si + 1, pi + 1, si,
                                      score + MatchDelta(origRunes, si, pi, prevMatchIdx),
                                      Append(positions, si))
    ELSE IF pi < Len(patRunes)
         THEN NoMatch
         ELSE [Score |-> score, Matched |-> TRUE, Positions |-> positions]

\* The scan loop of Score, from index si with pi pattern runes matched.
RECURSIVE ScoreLoop(_, _, _, _, _, _, _, _)
ScoreLoop(strRunes, patRunes, origRunes, si, pi, prevMatchIdx, score, positions) ==
    IF si < Len(strRunes) /\ pi < Len(patRunes)
    THEN IF At(strRunes, si) # At(patRunes, pi)
         THEN ScoreLoop(strRunes, patRunes, origRunes, si + 1, pi, prevMatchIdx,
                        score, positions)
         ELSE ScoreLoop(strRunes, patRunes, origRunes, si + 1, pi + 1, si,
                        score + MatchDelta(origRunes, si, pi, prevMatchIdx),
                        Append(positions, si))
    ELSE IF pi < Len(patRunes)
         THEN NoMatch
         ELSE [Score |-> score, Matched |-> TRUE, Positions |-> positions]

\* Mutant: the empty pattern is not treated apart.
ScoreNoEmptyPatternCase(str, pattern) ==
    IF str = <<>> THEN NoMatch
    ELSE IF Len(toLower(pattern)) > Len(toLower(str)) THEN NoMatch
    ELSE ScoreLoop(toLower(str), toLower(pattern), str, 0, 0, -1, 0, <<>>)

\* Mutant: the two early returns in the other order.
ScoreEmptyTextFirst(str, pattern) ==
    IF str = <<>> THEN NoMatch
    ELSE IF pattern = <<>> THEN [Score |-> 0, Matched |-> TRUE, Positions |-> <<>>]
    ELSE IF Len(toLower(pattern)) > Len(toLower(str)) THEN NoMatch
    ELSE ScoreLoop(toLower(str), toLower(pattern), str, 0, 0, -1, 0, <<>>)

\* Mutant: the pattern is compared as typed, only the text is folded.
ScorePatternNotFolded(str, pattern) ==
    IF pattern = <<>> THEN [Score |-> 0, Matched |-> TRUE, Positions |-> <<>>]
    ELSE IF str = <<>> THEN NoMatch
    ELSE IF Len(pattern) > Len(toLower(str)) THEN NoMatch
    ELSE ScoreLoop(toLower(str), pattern, str, 0, 0, -1, 0, <<>>)

\* Mutant: the text is compared as given, only the pattern is folded.
ScoreTextNotFolded(str, pattern) ==
    IF pattern = <<>> THEN [Score |-> 0, Matched |-> TRUE, Positions |-> <<>>]
    ELSE IF str = <<>> THEN NoMatch
    ELSE IF Len(toLower(pattern)) > Len(str) THEN NoMatch
    ELSE ScoreLoop(str, toLower(pattern), str, 0, 0, -1, 0, <<>>)

\* Mutant: the boundary checks read the folded text.
ScoreBoundariesOnFolded(str, pattern) ==
    IF pattern = <<>> THEN [Score |-> 0, Matched |-> TRUE, Positions |-> <<>>]
    ELSE IF str = <<>> THEN NoMatch
    ELSE IF Len(toLower(pattern)) > Len(toLower(str)) THEN NoMatch
    ELSE ScoreLoop(toLower(str), toLower(pattern), toLower(str), 0, 0, -1, 0, <<>>)

Score(str, pattern) ==
    IF pattern = <<>> THEN [Score |-> 0, Matched |-> TRUE, Positions |-> <<>>]
    ELSE IF str = <<>> THEN NoMatch
    ELSE IF Len(toLower(pattern)) > Len(toLower(str)) THEN NoMatch
    ELSE ScoreLoop(toLower(str), toLower(pattern), str, 0, 0, -1, 0, <<>>)

\* ------------------------------------------------------------- sort.Slice
\* sort.Slice with less(i, j) = filtered[i].match.Score > filtered[j].match.Score.
\* For slices shorter than 12 elements Go's sort runs an insertion sort:
\* element i is swapped towards the front while it is "less" than its
\* predecessor.
RECURSIVE SwapDown(_, _)
SwapDown(s, j) ==
    IF j > 1 /\ s[j].match.Score > s[j - 1].match.Score
    THEN SwapDown([s EXCEPT ![j] = s[j - 1], ![j - 1] = s[j]], j - 1)
    ELSE s

RECURSIVE InsertionSortFrom(_, _)
InsertionSortFrom(s, i) ==
    IF i > Len(s) THEN s ELSE InsertionSortFrom(SwapDown(s, i), i + 1)

\* Mutant: the matches stay in the order of entries.
sortSliceSkipped(s) == s

sortSlice(s) == InsertionSortFrom(s, 2)

\* ------------------------------------------------------------- text input
\* tea messages: the keys the pickers react to, typed runes, backspace and
\* the cursor-blink message (not a key).  Runes is empty for all but KeyRunes.
KeyMsg(t) == [Type |-> t, Runes |-> <<>>]

Msgs ==
    { KeyMsg(t) : t \in {"KeyCtrlC", "KeyEsc", "KeyEnter", "KeyUp", "KeyDown",
                         "KeyBackspace", "BlinkMsg"} }
    \cup { [Type |-> "KeyRunes", Runes |-> <<r>>] : r \in TypedRunes }

\* textinput.Model.Update as far as Value() goes: typed runes are appended,
\* backspace deletes the last rune, every other message leaves the value.
textInputUpdate(value, ms) ==
    IF ms.Type = "KeyRunes" THEN value \o ms.Runes
    ELSE IF ms.Type = "KeyBackspace" /\ Len(value) > 0 THEN SubSeq(value, 1, Len(value) - 1)
    ELSE value

\* ------------------------------------------------------- worktree picker
Entries == { [Branch |-> n, Path |-> <<47>> \o n] : n \in Names }

filteredEntry(e, mt) == [Branch |-> e.Branch, Path |-> e.Path, match |-> mt]

newModel(entries) ==
    [entries   |-> entries,
     filtered  |-> [i \in 1..Len(entries) |-> filteredEntry(entries[i], NoMatch)],
     textInput |-> <<>>,
     selected  |-> 0,
     cancelled |-> FALSE]

\* The loop "for _, e := range m.entries" that keeps the matching entries.
RECURSIVE modelMatches(_, _, _)
modelMatches(entries, query, i) ==
    IF i > Len(entries) THEN <<>>
    ELSE LET match == Score(entries[i].Branch, query)
         IN (IF match.Matched THEN << filteredEntry(entries[i], match) >> ELSE <<>>)
            \o modelMatches(entries, query, i + 1)

\* Mutant: an empty query is treated as matching nothing.
modelFilterEmptyQueryNone(entries, query) ==
    IF query = <<>> THEN <<>> ELSE sortSlice(modelMatches(entries, query, 1))

modelFilter(entries, query) ==
    IF query = <<>>
    THEN [i \in 1..Len(entries) |-> filteredEntry(entries[i], NoMatch)]
    ELSE sortSlice(modelMatches(entries, query, 1))

\* Mutant: the clamp without its floor at 0.
clampSelectionNoFloor(md) ==
    IF md.selected >= Len(md.filtered)
    THEN [md EXCEPT !.selected = Len(md.filtered) - 1]
    ELSE md

clampSelection(md) ==
    IF md.selected >= Len(md.filtered)
    THEN [md EXCEPT !.selected = max(0, Len(md.filtered) - 1)]
    ELSE md

\* Mutant: Enter quits even when nothing is listed.
modelConfirmsAlways(md) == TRUE

\* case tea.KeyEnter: the condition under which Update returns tea.Quit.
modelConfirms(md) == Len(md.filtered) > 0

\* Mutant: KeyUp without the check for the top of the list.
modelMoveUnchecked(md, ms) ==
    IF ms.Type = "KeyUp" THEN [md EXCEPT !.selected = @ - 1]
    ELSE IF ms.Type = "KeyDown"
    THEN IF md.selected < Len(md.filtered) - 1 THEN [md EXCEPT !.selected = @ + 1] ELSE md
    ELSE md

\* case tea.KeyUp / tea.KeyDown of the worktree picker.
modelMove(md, ms) ==
    IF ms.Type = "KeyUp"
    THEN IF md.selected > 0 THEN [md EXCEPT !.selected = @ - 1] ELSE md
    ELSE IF ms.Type = "KeyDown"
    THEN IF md.selected < Len(md.filtered) - 1 THEN [md EXCEPT !.selected = @ + 1] ELSE md
    ELSE md

\* Mutant: the next query searches only what the last one kept.
modelUpdateNarrowsEntries(md, ms) ==
    IF ms.Type \in {"KeyCtrlC", "KeyEsc"}
    THEN [m |-> [md EXCEPT !.cancelled = TRUE], cmd |-> "Quit"]
    ELSE IF ms.Type = "KeyEnter" /\ modelConfirms(md)
    THEN [m |-> md, cmd |-> "Quit"]
    ELSE LET m1 == modelMove(md, ms)
             m2 == [m1 EXCEPT !.textInput = textInputUpdate(@, ms)]
             m3 == [m2 EXCEPT !.filtered = modelFilter(m2.entries, m2.textInput)]
             m4 == [m3 EXCEPT !.entries =
                        [i \in 1..Len(m3.filtered) |->
                            [Branch |-> m3.filtered[i].Branch, Path |-> m3.filtered[i].Path]]]
         IN [m |-> clampSelection(m4), cmd |-> "None"]

\* Mutant: a changed query puts the cursor on the best match.
modelUpdateResetsCursor(md, ms) ==
    IF ms.Type \in {"KeyCtrlC", "KeyEsc"}
    THEN [m |-> [md EXCEPT !.cancelled = TRUE], cmd |-> "Quit"]
    ELSE IF ms.Type = "KeyEnter" /\ modelConfirms(md)
    THEN [m |-> md, cmd |-> "Quit"]
    ELSE LET m1 == modelMove(md, ms)
             m2 == [m1 EXCEPT !.textInput = textInputUpdate(@, ms)]
             m3 == [m2 EXCEPT !.filtered = modelFilter(m2.entries, m2.textInput)]
             m4 == IF m3.textInput # md.textInput THEN [m3 EXCEPT !.selected = 0] ELSE m3
         IN [m |-> clampSelection(m4), cmd |-> "None"]

modelUpdate(md, ms) ==
    IF ms.Type \in {"KeyCtrlC", "KeyEsc"}
    THEN [m |-> [md EXCEPT !.cancelled = TRUE], cmd |-> "Quit"]
    ELSE IF ms.Type = "KeyEnter" /\ modelConfirms(md)
    THEN [m |-> md, cmd |-> "Quit"]
    ELSE LET m1 == modelMove(md, ms)
             m2 == [m1 EXCEPT !.textInput = textInputUpdate(@, ms)]
             m3 == [m2 EXCEPT !.filtered = modelFilter(m2.entries, m2.textInput)]
         IN [m |-> clampSelection(m3), cmd |-> "None"]

\* What Select returns for the final model.
SelectResult(md) ==
    IF md.cancelled THEN <<>>
    ELSE IF md.selected >= 0 /\ md.selected < Len(md.filtered)
    THEN At(md.filtered, md.selected).Path
    ELSE <<>>

\* --------------------------------------------------------- branch picker
BranchEntries == { [Name |-> n, HasWorktree |-> h] : n \in Names, h \in BOOLEAN }

filteredBranchEntry(e, mt) == [Name |-> e.Name, HasWorktree |-> e.HasWorktree, match |-> mt]

\* Mutant: the selection starts at the top whatever the flags are.
startIdxFromTop(filtered, i) == 0

\* "Start selection on first selectable entry": the scan from index i.
RECURSIVE startIdxFrom(_, _)
startIdxFrom(filtered, i) ==
    IF i >= Len(filtered) THEN 0
    ELSE IF ~At(filtered, i).HasWorktree THEN i
    ELSE startIdxFrom(filtered, i + 1)

newBranchModel(entries) ==
    LET filtered == [i \in 1..Len(entries) |-> filteredBranchEntry(entries[i], NoMatch)]
    IN [entries   |-> entries,
        filtered  |-> filtered,
        textInput |-> <<>>,
        selected  |-> startIdxFrom(filtered, 0),
        cancelled |-> FALSE]

\* The loop of moveSelection; start is the cursor on entry.
RECURSIVE moveSelectionLoop(_, _, _)
moveSelectionLoop(md, dir, start) ==
    LET next == md.selected + dir
    IN IF next < 0 \/ next >= Len(md.filtered) THEN md
       ELSE LET moved == [md EXCEPT !.selected = next]
            IN IF ~At(moved.filtered, moved.selected).HasWorktree THEN moved
               ELSE IF moved.selected = start THEN moved
               ELSE moveSelectionLoop(moved, dir, start)

\* Mutant: one step in the direction, disabled or not.
moveSelectionOneStep(md, dir) ==
    IF Len(md.filtered) = 0 THEN md
    ELSE IF md.selected + dir < 0 \/ md.selected + dir >= Len(md.filtered) THEN md
    ELSE [md EXCEPT !.selected = @ + dir]

moveSelection(md, dir) ==
    IF Len(md.filtered) = 0 THEN md
    ELSE moveSelectionLoop(md, dir, md.selected)

RECURSIVE branchMatches(_, _, _)
branchMatches(entries, query, i) ==
    IF i > Len(entries) THEN <<>>
    ELSE LET match == Score(entries[i].Name, query)
         IN (IF match.Matched THEN << filteredBranchEntry(entries[i], match) >> ELSE <<>>)
            \o branchMatches(entries, query, i + 1)

branchFilter(entries, query) ==
    IF query = <<>>
    THEN [i \in 1..Len(entries) |-> filteredBranchEntry(entries[i], NoMatch)]
    ELSE sortSlice(branchMatches(entries, query, 1))

\* Mutant: the cursor is nudged one entry down, selectable or not.
skipDisabledOneStep(md) ==
    IF Len(md.filtered) > 0 /\ At(md.filtered, md.selected).HasWorktree
    THEN moveSelectionOneStep(md, 1)
    ELSE md

\* "Skip to nearest selectable entry if current is disabled".
skipDisabled(md) ==
    IF Len(md.filtered) > 0 /\ At(md.filtered, md.selected).HasWorktree
    THEN moveSelection(md, 1)
    ELSE md

\* Mutant: Enter quits on any non-empty list, as in the worktree picker.
branchConfirmsAnyEntry(md) == Len(md.filtered) > 0

\* case tea.KeyEnter: the condition under which Update returns tea.Quit.
branchConfirms(md) == Len(md.filtered) > 0 /\ ~At(md.filtered, md.selected).HasWorktree

branchModelUpdate(md, ms) ==
    IF ms.Type \in {"KeyCtrlC", "KeyEsc"}
    THEN [m |-> [md EXCEPT !.cancelled = TRUE], cmd |-> "Quit"]
    ELSE IF ms.Type = "KeyEnter" /\ branchConfirms(md)
    THEN [m |-> md, cmd |-> "Quit"]
    ELSE LET m1 == IF ms.Type = "KeyUp" THEN moveSelection(md, -1)
                   ELSE IF ms.Type = "KeyDown" THEN moveSelection(md, 1)
                   ELSE md
             m2 == [m1 EXCEPT !.textInput = textInputUpdate(@, ms)]
             m3 == [m2 EXCEPT !.filtered = branchFilter(m2.entries, m2.textInput)]
         IN [m |-> skipDisabled(clampSelection(m3)), cmd |-> "None"]

\* Mutant: the cancelled flag is not looked at.
SelectBranchResultIgnoringCancel(md) ==
    IF md.selected >= 0 /\ md.selected < Len(md.filtered)
    THEN IF At(md.filtered, md.selected).HasWorktree THEN <<>>
         ELSE At(md.filtered, md.selected).Name
    ELSE <<>>

\* What SelectBranch returns for the final model.
SelectBranchResult(md) ==
    IF md.cancelled THEN <<>>
    ELSE IF md.selected >= 0 /\ md.selected < Len(md.filtered)
    THEN IF At(md.filtered, md.selected).HasWorktree THEN <<>>
         ELSE At(md.filtered, md.selected).Name
    ELSE <<>>

\* ------------------------------------------------------------ the session
\* pc: "run"  the program loop delivers messages to Update,
\*     "quit" an Update has returned tea.Quit; its QuitMsg is on its way
\*            through the message queue,
\*     "done" Select / SelectBranch returned result to the caller.
\* result is the pair (string, error) the caller receives; err tells
\* whether the error is non-nil.
NoMsg == KeyMsg("None")

NoResult == [value |-> <<>>, err |-> FALSE]

Init ==
    /\ kind \in {"model", "branchModel"}
    /\ m \in IF kind = "model"
             THEN { newModel(es) : es \in SeqsUpTo(Entries, MaxEntries) }
             ELSE { newBranchModel(es) : es \in SeqsUpTo(BranchEntries, MaxEntries) }
    /\ pc = "run"
    /\ msg = NoMsg
    /\ result = NoResult
    /\ scoreStr = <<>>
    /\ scorePattern = <<>>
    /\ scoreMatch = NoMatch

\* The text input is not fed more runes than the model's bound on the query.
Deliverable(ms) == Len(m.textInput) + Len(ms.Runes) <= MaxQueryLen

\* One message handled by Update.  tea.Quit is a command: the program loop
\* runs it aside and its QuitMsg arrives as one more message, so messages
\* that are already waiting reach Update first; neither Update looks at
\* cancelled or remembers that it returned tea.Quit.
ModelUpdate(ms) ==
    /\ kind = "model"
    /\ pc \in {"run", "quit"}
    /\ Deliverable(ms)
    /\ LET r == modelUpdate(m, ms)
       IN /\ m' = r.m
          /\ pc' = IF r.cmd = "Quit" \/ pc = "quit" THEN "quit" ELSE "run"
    /\ msg' = ms
    /\ UNCHANGED <<kind, result, scoreStr, scorePattern, scoreMatch>>

BranchModelUpdate(ms) ==
    /\ kind = "branchModel"
    /\ pc \in {"run", "quit"}
    /\ Deliverable(ms)
    /\ LET r == branchModelUpdate(m, ms)
       IN /\ m' = r.m
          /\ pc' = IF r.cmd = "Quit" \/ pc = "quit" THEN "quit" ELSE "run"
    /\ msg' = ms
    /\ UNCHANGED <<kind, result, scoreStr, scorePattern, scoreMatch>>

\* How p.Run() ends: "quit" with the model as it is when the QuitMsg an
\* Update asked for is handled; "signal" with the model as it is when the
\* program loop quits on a termination signal, in any state of the session;
\* "error" with a non-nil error (no terminal, the program killed), in any
\* state of the session.
RunEnds == {"quit", "signal", "error"}

Select ==
    /\ kind = "model"
    /\ pc \in {"run", "quit"}
    /\ \E ended \in RunEnds :
          /\ ended = "quit" => pc = "quit"
          /\ result' = IF ended = "error" THEN [value |-> <<>>, err |-> TRUE]
                       ELSE [value |-> SelectResult(m), err |-> FALSE]
    /\ pc' = "done"
    /\ UNCHANGED <<kind, m, msg, scoreStr, scorePattern, scoreMatch>>

SelectBranch ==
    /\ kind = "branchModel"
    /\ pc \in {"run", "quit"}
    /\ \E ended \in RunEnds :
          /\ ended = "quit" => pc = "quit"
          /\ result' = IF ended = "error" THEN [value |-> <<>>, err |-> TRUE]
                       ELSE [value |-> SelectBranchResult(m), err |-> FALSE]
    /\ pc' = "done"
    /\ UNCHANGED <<kind, m, msg, scoreStr, scorePattern, scoreMatch>>

Next ==
    \/ \E ms \in Msgs : ModelUpdate(ms)
    \/ \E ms \in Msgs : BranchModelUpdate(ms)
    \/ Select
    \/ SelectBranch

Spec == Init /\ [][Next]_vars

\* Sessions in which the user only presses the arrow keys.
MoveMsgs == { KeyMsg("KeyUp"), KeyMsg("KeyDown") }

NextNav ==
    \/ \E ms \in MoveMsgs : ModelUpdate(ms)
    \/ \E ms \in MoveMsgs : BranchModelUpdate(ms)

SpecNav == Init /\ [][NextNav]_vars

\* ------------------------------------------------------- one call of Score
MaxTextLen == 3
MaxPatternLen == 3
MaxGap == 5

\* Runes of the texts and patterns scored: 'a', 'b', 'A', '-'.
ScoreRunes == { 97, 98, 65, 45 }

\* "feature-auth", "fau", "FeatureAuth", "featureauth"
FeatureAuthText == << 102, 101, 97, 116, 117, 114, 101, 45, 97, 117, 116, 104 >>

FauPattern == << 102, 97, 117 >>

FeatureAuthCamel == << 70, 101, 97, 116, 117, 114, 101, 65, 117, 116, 104 >>

FeatureAuthLower == << 102, 101, 97, 116, 117, 114, 101, 97, 117, 116, 104 >>

\* "xAuth", "xauth"; "abcdef", "axbxcx", "abc"; "ab"
XAuthCamel == << 120, 65, 117, 116, 104 >>

XAuthLower == << 120, 97, 117, 116, 104 >>

AbcdefText == << 97, 98, 99, 100, 101, 102 >>

AxbxcxText == << 97, 120, 98, 120, 99, 120 >>

AbcPattern == << 97, 98, 99 >>

AbPattern == << 97, 98 >>

ScoreExamples ==
    { << FeatureAuthText, FauPattern >>,
      << FeatureAuthText, FeatureAuthText >>,
      << FeatureAuthCamel, FeatureAuthLower >>,
      << XAuthCamel, << 97 >> >>, << XAuthCamel, << 65 >> >>,
      << XAuthLower, << 97 >> >>,
      << AbcdefText, AbcPattern >>, << AxbxcxText, AbcPattern >> }

\* Texts around a word boundary, scored against one rune: 'x', 'y', 'Y',
\* '1' and the four separators '-', '_', '.', '/'.
BoundaryRunes == { 120, 121, 89, 49, 45, 95, 46, 47 }

BoundaryInputs ==
    SeqsUpTo(BoundaryRunes, MaxTextLen) \X { << c >> : c \in BoundaryRunes }

\* 'a', up to MaxGap separators, 'b', scored against "ab" ("a-b", "a-----b").
GapInputs ==
    { << << 97 >> \o seps \o << 98 >>, AbPattern >> :
        seps \in SeqsUpTo({ 45, 95, 46, 47 }, MaxGap) }

ScoreInputs ==
    (SeqsUpTo(ScoreRunes, MaxTextLen) \X SeqsUpTo(ScoreRunes, MaxPatternLen))
    \cup ScoreExamples \cup BoundaryInputs \cup GapInputs

\* pc: "call" Score is about to be called with (scoreStr, scorePattern),
\*     "ret"  Score has returned scoreMatch.
InitScore ==
    /\ kind = "scorer"
    /\ m = newModel(<<>>)
    /\ pc = "call"
    /\ msg = NoMsg
    /\ result = NoResult
    /\ \E input \in ScoreInputs : scoreStr = input[1] /\ scorePattern = input[2]
    /\ scoreMatch = NoMatch

ScoreCall ==
    /\ kind = "scorer"
    /\ pc = "call"
    /\ scoreMatch' = Score(scoreStr, scorePattern)
    /\ pc' = "ret"
    /\ UNCHANGED <<kind, m, msg, result, scoreStr, scorePattern>>

NextScore == ScoreCall

SpecScore == InitScore /\ [][NextScore]_vars

\* ------------------------------------------------------ claim vocabulary
IsBranch == kind = "branchModel"

IsPlain == kind = "model"

\* The step is an Update in a running session, for a message of type t.
Handles(t) == pc = "run" /\ pc' # "done" /\ msg'.Type = t

Disabled(filtered, i) == At(filtered, i).HasWorktree

HasSelectable(filtered) == \E i \in 0..(Len(filtered) - 1) : ~Disabled(filtered, i)

OnDisabled(md) == Len(md.filtered) > 0 /\ Disabled(md.filtered, md.selected)

\* ---------------------------------------------------------------- claims
\* C1: in the branch picker, for an entry list with at least one selectable
\* entry, after any sequence of KeyUp/KeyDown messages from the initial
\* state the cursor does not index an entry with HasWorktree set.
C1_CursorNeverOnDisabled ==
    (IsBranch /\ HasSelectable(m.filtered)) => ~Disabled(m.filtered, m.selected)

\* C2: in the branch picker, Enter while the cursor is on an entry with
\* HasWorktree set does not quit and does not cancel; whenever an Update has
\* returned tea.Quit and the session is not cancelled, the entry at the
\* cursor is selectable; and a non-empty string returned by SelectBranch is
\* the name of the selectable entry at the cursor.
C2_DisabledNeverConfirmed ==
    [][ IsBranch =>
          /\ (Handles("KeyEnter") /\ OnDisabled(m)) => (pc' = "run" /\ ~m'.cancelled)
          /\ (pc' = "quit" /\ ~m'.cancelled) =>
                (Len(m'.filtered) > 0 /\ ~Disabled(m'.filtered, m'.selected))
          /\ (pc' = "done" /\ result'.value # <<>>) =>
                (/\ ~Disabled(m'.filtered, m'.selected)
                 /\ result'.value = At(m'.filtered, m'.selected).Name)
      ]_vars

\* C3: Esc and Ctrl-C, delivered in any running state of either picker,
\* set cancelled and quit; a cancelled session returns the empty string
\* whatever the cursor and the filtered list are.
C3_CancelAlwaysCancels ==
    [][ /\ (Handles("KeyEsc") \/ Handles("KeyCtrlC")) => (pc' = "quit" /\ m'.cancelled)
        /\ (pc' = "done" /\ m'.cancelled) => result'.value = <<>>
      ]_vars

\* A picker cancelled with a selectable entry under the cursor has returned
\* without an error.
C3_Witness ==
    /\ pc = "done" /\ m.cancelled /\ msg.Type = "KeyEsc" /\ ~result.err
    /\ m.textInput # <<>> /\ m.selected > 0
    /\ (IsBranch => ~Disabled(m.filtered, m.selected))

\* C4: Enter quits exactly when filtered is non-empty and (branch picker)
\* the entry at the cursor is selectable; the quitting step leaves the model
\* unchanged; from then on the cursor, the query and filtered stay as they
\* are, so that the caller receives the Path / Name of the entry that was
\* at the cursor; Enter on an empty filtered list leaves the model unchanged
\* and running.
C4_ConfirmSelectsCursor ==
    [][ /\ Handles("KeyEnter") =>
              /\ (pc' = "quit") <=> (Len(m.filtered) > 0 /\ (IsBranch => ~OnDisabled(m)))
              /\ (pc' = "quit") => (m' = m /\ ~m'.cancelled)
              /\ (Len(m.filtered) = 0) => (m' = m /\ pc' = "run")
        /\ (pc = "quit" /\ ~m.cancelled) =>
              /\ m'.selected = m.selected
              /\ m'.textInput = m.textInput
              /\ m'.filtered = m.filtered
              /\ (pc' = "done" /\ ~result'.err) =>
                    /\ Len(m.filtered) > 0
                    /\ result'.value = IF IsBranch THEN At(m.filtered, m.selected).Name
                                       ELSE At(m.filtered, m.selected).Path
      ]_vars

\* C5: before the first message, filtered is the entry list in its order
\* with zero-value matches, and the cursor is the smallest index of a
\* selectable entry, 0 when there is none or in the worktree picker.
FirstSelectable(filtered) ==
    IF HasSelectable(filtered)
    THEN CHOOSE i \in 0..(Len(filtered) - 1) :
            /\ ~Disabled(filtered, i)
            /\ \A j \in 0..(i - 1) : Disabled(filtered, j)
    ELSE 0

C5_InitialState ==
    (msg = NoMsg) =>
        /\ Len(m.filtered) = Len(m.entries)
        /\ m.textInput = <<>>
        /\ \A i \in 1..Len(m.entries) :
              /\ m.filtered[i].match = NoMatch
              /\ IF IsBranch
                 THEN /\ m.filtered[i].Name = m.entries[i].Name
                      /\ m.filtered[i].HasWorktree = m.entries[i].HasWorktree
                 ELSE /\ m.filtered[i].Branch = m.entries[i].Branch
                      /\ m.filtered[i].Path = m.entries[i].Path
        /\ m.selected = IF IsBranch THEN FirstSelectable(m.filtered) ELSE 0

\* A fresh branch picker whose first selectable entry is the third one.
C5_Witness ==
    /\ msg = NoMsg /\ IsBranch /\ m.selected = 2
    /\ Disabled(m.filtered, 0) /\ Disabled(m.filtered, 1)

\* C6: in the branch picker, KeyDown (KeyUp) with the cursor on a selectable
\* entry and a selectable entry at a greater (smaller) index moves the cursor
\* to the nearest such entry, over the disabled entries in between; KeyDown
\* never moves the cursor up and KeyUp never moves it down.  For entries
\* [disabled, selectable, selectable] the cursor goes 1 -> 2 on KeyDown and
\* stays 2 on a further KeyDown.
SelectableBelow(md) ==
    { j \in (md.selected + 1)..(Len(md.filtered) - 1) : ~Disabled(md.filtered, j) }

SelectableAbove(md) ==
    { j \in 0..(md.selected - 1) : ~Disabled(md.filtered, j) }

Least(S) == CHOOSE x \in S : \A y \in S : x <= y

Greatest(S) == CHOOSE x \in S : \A y \in S : x >= y

ScenarioFlags == << TRUE, FALSE, FALSE >>

C6_MoveSkipsDisabled ==
    [][ (IsBranch /\ Len(m.filtered) > 0 /\ ~OnDisabled(m)) =>
          /\ Handles("KeyDown") =>
                /\ m'.selected >= m.selected
                /\ m'.filtered = m.filtered
                /\ SelectableBelow(m) # {} => m'.selected = Least(SelectableBelow(m))
          /\ Handles("KeyUp") =>
                /\ m'.selected <= m.selected
                /\ m'.filtered = m.filtered
                /\ SelectableAbove(m) # {} => m'.selected = Greatest(SelectableAbove(m))
          /\ ( /\ Handles("KeyDown")
               /\ m.textInput = <<>>
               /\ [i \in 1..Len(m.entries) |-> m.entries[i].HasWorktree] = ScenarioFlags )
             => ( /\ m.selected = 1 => m'.selected = 2
                  /\ m.selected = 2 => m'.selected = 2 )
      ]_vars

\* KeyUp has just taken the cursor from index 2 over a disabled entry to index 0.
C6_Witness ==
    /\ IsBranch /\ pc = "run" /\ msg.Type = "KeyUp" /\ Len(m.filtered) = 3
    /\ m.selected = 0 /\ ~Disabled(m.filtered, 0)
    /\ Disabled(m.filtered, 1) /\ ~Disabled(m.filtered, 2)

\* C7: in the branch picker, KeyDown (KeyUp) with no selectable entry at a
\* greater (smaller) index leaves the cursor where it was.
C7_NoSelectableNoMove ==
    [][ IsBranch =>
          /\ (Handles("KeyDown") /\ SelectableBelow(m) = {}) => m'.selected = m.selected
          /\ (Handles("KeyUp") /\ SelectableAbove(m) = {}) => m'.selected = m.selected
      ]_vars

\* C8: in the worktree picker, KeyDown sets the cursor to
\* min(cursor + 1, len(filtered) - 1) and KeyUp to max(cursor - 1, 0); both
\* leave the cursor alone on an empty list, and neither changes filtered.
C8_PlainSingleStep ==
    [][ IsPlain =>
          /\ Handles("KeyDown") =>
                /\ m'.selected = IF Len(m.filtered) = 0 THEN m.selected
                                 ELSE IF m.selected + 1 < Len(m.filtered) - 1
                                      THEN m.selected + 1 ELSE Len(m.filtered) - 1
                /\ m'.filtered = m.filtered
          /\ Handles("KeyUp") =>
                /\ m'.selected = IF Len(m.filtered) = 0 THEN m.selected
                                 ELSE max(m.selected - 1, 0)
                /\ m'.filtered = m.filtered
      ]_vars

\* KeyUp was pressed at the top of a filtered list of the worktree picker.
C8_Witness ==
    /\ IsPlain /\ pc = "run" /\ msg.Type = "KeyUp" /\ m.selected = 0
    /\ Len(m.filtered) >= 2 /\ m.textInput # <<>>

\* KeyDown has moved the cursor of the worktree picker to the last entry.
C8_WitnessDown ==
    /\ IsPlain /\ pc = "run" /\ msg.Type = "KeyDown"
    /\ Len(m.filtered) = 3 /\ m.selected = 2

\* C9: whenever the query is non-empty, filtered holds every entry whose
\* name matches the query as often as entries holds it and no other entry,
\* each with the Match that Score gives for it, and the scores along
\* filtered do not increase.
Count(s, x) == Cardinality({ i \in 1..Len(s) : s[i] = x })

EntryName(e) == IF IsBranch THEN e.Name ELSE e.Branch

Paired(e, mt) == IF IsBranch THEN filteredBranchEntry(e, mt) ELSE filteredEntry(e, mt)

EntryPool == IF IsBranch THEN BranchEntries ELSE Entries

C9_FilteredIsSortedMatches ==
    (m.textInput # <<>>) =>
        /\ \A e \in EntryPool :
              LET mt == Score(EntryName(e), m.textInput)
              IN Count(m.filtered, Paired(e, mt)) =
                     IF mt.Matched THEN Count(m.entries, e) ELSE 0
        /\ \A i \in 1..Len(m.filtered) :
              /\ m.filtered[i].match.Matched
              /\ \E e \in EntryPool :
                    m.filtered[i] = Paired(e, Score(EntryName(e), m.textInput))
        /\ \A i \in 1..(Len(m.filtered) - 1) :
              m.filtered[i].match.Score >= m.filtered[i + 1].match.Score

\* A query has dropped one entry, kept a duplicated one twice and moved the
\* best match ahead of an entry that precedes it in entries.
C9_Witness ==
    /\ m.textInput # <<>> /\ Len(m.entries) = 3 /\ Len(m.filtered) = 2
    /\ m.filtered[1].match.Score > m.filtered[2].match.Score
    /\ EntryName(m.entries[1]) = EntryName(m.filtered[2])
    /\ EntryName(m.entries[1]) # EntryName(m.filtered[1])

\* A query has kept both copies of an entry that occurs twice.
C9_WitnessDup ==
    /\ m.textInput # <<>> /\ Len(m.entries) = 3 /\ Len(m.filtered) = 2
    /\ m.filtered[1] = m.filtered[2]

\* C10: whenever the query is empty, filtered is the entry list in its
\* order, each entry with the zero-value Match (score 0, no positions).
C10_EmptyQueryShowsAll ==
    (m.textInput = <<>>) =>
        /\ Len(m.filtered) = Len(m.entries)
        /\ \A i \in 1..Len(m.entries) : m.filtered[i] = Paired(m.entries[i], NoMatch)

\* The last typed rune was deleted again; the list the query had re-sorted
\* is back in the order of entries.
C10_Witness ==
    /\ msg.Type = "KeyBackspace" /\ m.textInput = <<>> /\ Len(m.filtered) = 3
    /\ LET byB == sortSlice([i \in 1..3 |->
                     Paired(m.entries[i], Score(EntryName(m.entries[i]), <<98>>))])
       IN \E i \in 1..3 : EntryName(byB[i]) # EntryName(m.entries[i])

\* C11: in every state of both pickers the cursor is at least 0, below
\* len(filtered) when filtered is non-empty and 0 when filtered is empty.
C11_CursorInBounds ==
    /\ m.selected >= 0
    /\ Len(m.filtered) > 0 => m.selected < Len(m.filtered)
    /\ Len(m.filtered) = 0 => m.selected = 0

\* A typed rune has shortened the list and the cursor sits on its last entry,
\* below the top.
C11_Witness ==
    /\ pc = "run" /\ msg.Type = "KeyRunes" /\ Len(m.entries) = 3
    /\ Len(m.filtered) = 2 /\ m.selected = 1

\* C12: once Update has returned tea.Quit (Selected or Cancelled), no later
\* message changes the cursor, the filtered list, the query or cancelled.
C12_TerminalAbsorbing ==
    [][ (pc = "quit" \/ pc = "done") =>
          /\ m'.selected = m.selected
          /\ m'.filtered = m.filtered
          /\ m'.textInput = m.textInput
          /\ m'.cancelled = m.cancelled
      ]_vars

\* ------------------------------------------------------ claims on Score
Returned == kind = "scorer" /\ pc = "ret"

\* C13: for every text, the empty text included, Score(t, "") is matched
\* with score 0 and no positions.
C13_EmptyPatternMatches ==
    (Returned /\ scorePattern = <<>>) =>
        /\ scoreMatch.Matched
        /\ scoreMatch.Score = 0
        /\ scoreMatch.Positions = <<>>

\* Score has returned for the empty text and the empty pattern.
C13_Witness == Returned /\ scorePattern = <<>> /\ scoreStr = <<>>

\* C14: a pattern longer than the text is not matched, and the empty text
\* is matched exactly by the empty pattern.
C14_LongerPatternNoMatch ==
    Returned =>
        /\ Len(scorePattern) > Len(scoreStr) => ~scoreMatch.Matched
        /\ scoreStr = <<>> => (scoreMatch.Matched <=> scorePattern = <<>>)

\* Score has returned for a pattern one rune longer than a text that holds
\* all but its last rune in order.
C14_Witness ==
    /\ Returned /\ Len(scoreStr) = 2 /\ Len(scorePattern) = 3
    /\ SubSeq(scorePattern, 1, 2) = scoreStr

\* C15: a Match that is not matched has score 0 and no positions, also
\* when a proper prefix of the pattern had been matched.
C15_NoMatchIsZero ==
    (Returned /\ ~scoreMatch.Matched) =>
        (scoreMatch.Score = 0 /\ scoreMatch.Positions = <<>>)

\* Score has returned "no match" for a pattern that fits the text and whose
\* first rune is the first rune of the text.
C15_Witness ==
    /\ Returned /\ ~scoreMatch.Matched
    /\ Len(scorePattern) >= 2 /\ Len(scorePattern) <= Len(scoreStr)
    /\ scoreStr[1] = scorePattern[1]

\* C16: for a matched non-empty pattern, Positions has len(pattern)
\* elements, is strictly increasing and every element is in [0, len(text)).
C16_PositionsWellFormed ==
    (Returned /\ scoreMatch.Matched /\ scorePattern # <<>>) =>
        /\ Len(scoreMatch.Positions) = Len(scorePattern)
        /\ \A k \in 1..Len(scoreMatch.Positions) :
              scoreMatch.Positions[k] >= 0 /\ scoreMatch.Positions[k] < Len(scoreStr)
        /\ \A k \in 2..Len(scoreMatch.Positions) :
              scoreMatch.Positions[k - 1] < scoreMatch.Positions[k]

\* A pattern of three equal runes (up to case) has been matched.
C16_Witness ==
    /\ Returned /\ scoreMatch.Matched /\ Len(scorePattern) = 3
    /\ scorePattern[1] = scorePattern[2] /\ scorePattern[2] = scorePattern[3]

\* C17: Score matches exactly when the pattern, compared under ASCII case
\* folding, is a subsequence of the text.
Fold(r) == IF r \in 65..90 THEN r + 32 ELSE r

\* Some embedding of p into t exists: the first rune of p is matched at the
\* first rune of t and the rest of p lies in the rest of t, or all of p lies
\* in the rest of t.
RECURSIVE IsFoldedSubsequence(_, _)
IsFoldedSubsequence(p, t) ==
    IF p = <<>> THEN TRUE
    ELSE IF t = <<>> THEN FALSE
    ELSE \/ Fold(Head(p)) = Fold(Head(t)) /\ IsFoldedSubsequence(Tail(p), Tail(t))
         \/ IsFoldedSubsequence(p, Tail(t))

C17_MatchedIffSubsequence ==
    Returned => (scoreMatch.Matched <=> IsFoldedSubsequence(scorePattern, scoreStr))

\* A pattern has been matched over a gap and across a difference in case.
C17_Witness ==
    /\ Returned /\ scoreMatch.Matched /\ Len(scorePattern) = 2
    /\ scoreMatch.Positions = << 0, 2 >>
    /\ scoreStr[1] # scorePattern[1]

\* C18 as stated: Score("feature-auth", "fau") matches with positions [0, 2, 9].
C18_WorkedExample ==
    (Returned /\ scoreStr = FeatureAuthText /\ scorePattern = FauPattern) =>
        (scoreMatch.Matched /\ scoreMatch.Positions = << 0, 2, 9 >>)

\* C18 amended: Score("feature-auth", "fau") matches with positions
\* [0, 2, 4]: 'f' at 0, the first 'a' at 2 and the first 'u' after it, the
\* one inside "feature" at 4.
C18_WorkedExampleGreedy ==
    (Returned /\ scoreStr = FeatureAuthText /\ scorePattern = FauPattern) =>
        (scoreMatch.Matched /\ scoreMatch.Positions = << 0, 2, 4 >>)

\* Score has returned for "feature-auth" and "fau".
C18_Witness ==
    Returned /\ scoreStr = FeatureAuthText /\ scorePattern = FauPattern
    /\ scoreMatch.Matched

\* C19: the score of a matched non-empty pattern is the sum, over the
\* matched positions, of: -3 per rune before the first match; -1 per rune
\* skipped since the previous match; +16 at index 0; +16 after a separator;
\* +16 for an uppercase rune after a lowercase one; +8 when the match is at
\* the previous matched index + 1; and of nothing else.
ClaimedDelta(t, pos, k) ==
    (IF k = 1 THEN -3 * pos[1] ELSE -1 * (pos[k] - pos[k - 1] - 1))
    + (IF pos[k] = 0 THEN 16 ELSE 0)
    + (IF pos[k] > 0 /\ At(t, pos[k] - 1) \in {45, 95, 46, 47} THEN 16 ELSE 0)
    + (IF pos[k] > 0 /\ At(t, pos[k]) \in 65..90 /\ At(t, pos[k] - 1) \in 97..122
       THEN 16 ELSE 0)
    + (IF k > 1 /\ pos[k] = pos[k - 1] + 1 THEN 8 ELSE 0)

RECURSIVE ClaimedScore(_, _, _)
ClaimedScore(t, pos, k) ==
    IF k = 0 THEN 0 ELSE ClaimedScore(t, pos, k - 1) + ClaimedDelta(t, pos, k)

C19_ScoreIsSumOfDeltas ==
    (Returned /\ scoreMatch.Matched /\ scorePattern # <<>>) =>
        scoreMatch.Score = ClaimedScore(scoreStr, scoreMatch.Positions,
                                        Len(scoreMatch.Positions))

\* C20: a non-empty text scored against itself is matched at the positions
\* 0, 1, ..., len(text) - 1 with a score above 0.
C20_ExactMatch ==
    (Returned /\ scoreStr # <<>> /\ scorePattern = scoreStr) =>
        /\ scoreMatch.Matched
        /\ scoreMatch.Positions = [k \in 1..Len(scoreStr) |-> k - 1]
        /\ scoreMatch.Score > 0

\* "feature-auth" has been scored against itself.
C20_Witness ==
    /\ Returned /\ scoreStr = FeatureAuthText /\ scorePattern = FeatureAuthText
    /\ Len(scoreMatch.Positions) = 12

\* ------------------------------------------- claims on the scoring deltas
SeparatorRunes == { 45, 95, 46, 47 }

\* The state after Score(<<x, s, c>>, <<c>>) for 'x', a separator s and a rune c.
AfterSeparatorCall ==
    /\ Returned /\ Len(scoreStr) = 3 /\ scoreStr[1] = 120
    /\ scoreStr[2] \in SeparatorRunes /\ scorePattern = << scoreStr[3] >>

\* The text of AfterSeparatorCall without its separator.
WithoutSeparator == << scoreStr[1], scoreStr[3] >>

\* C21 as stated: for each separator s and every single rune c, the text
\* "x" + s + c scores strictly higher against c than the text "x" + c.
C21_SeparatorBonus ==
    AfterSeparatorCall =>
        /\ scoreMatch.Matched
        /\ Score(WithoutSeparator, scorePattern).Matched
        /\ scoreMatch.Score > Score(WithoutSeparator, scorePattern).Score

\* C21 amended: for each separator s and every single rune c that is not a
\* separator, not an uppercase letter and not 'x', the text "x" + s + c
\* scores higher against c than the text "x" + c, by 16 - 3 = 13.
C21_SeparatorBonusLowerRune ==
    ( /\ AfterSeparatorCall
      /\ scoreStr[3] \notin SeparatorRunes
      /\ scoreStr[3] \notin 65..90
      /\ scoreStr[3] # 120 ) =>
        /\ scoreMatch.Matched
        /\ Score(WithoutSeparator, scorePattern).Matched
        /\ scoreMatch.Score > Score(WithoutSeparator, scorePattern).Score
        /\ scoreMatch.Score = Score(WithoutSeparator, scorePattern).Score + 13

\* Score("x_y", "y") has returned.
C21_Witness ==
    /\ AfterSeparatorCall /\ scoreStr = << 120, 95, 121 >>
    /\ scoreMatch.Matched /\ scoreMatch.Positions = << 2 >>

\* The matched runes that are uppercase right after a lowercase rune of t.
CamelCount(t, pos) ==
    Cardinality({ k \in 1..Len(pos) :
                    /\ pos[k] > 0
                    /\ At(t, pos[k]) \in 65..90
                    /\ At(t, pos[k] - 1) \in 97..122 })

Lowered(s) == [i \in 1..Len(s) |-> Fold(s[i])]

\* C22: a matched text scores what its all-lowercase form scores at the same
\* positions, plus 16 for every matched uppercase rune that follows a
\* lowercase rune in the text as given; the case of the pattern does not
\* matter; Score("xAuth", "a") is above Score("xauth", "a").
C22_CamelCaseOnOriginal ==
    (Returned /\ scoreMatch.Matched /\ scorePattern # <<>>) =>
        /\ LET low == Score(Lowered(scoreStr), scorePattern)
           IN /\ low.Matched
              /\ low.Positions = scoreMatch.Positions
              /\ scoreMatch.Score =
                    low.Score + 16 * CamelCount(scoreStr, scoreMatch.Positions)
        /\ Score(scoreStr, Lowered(scorePattern)) = scoreMatch
        /\ (scoreStr = XAuthCamel /\ Lowered(scorePattern) = << 97 >>) =>
              scoreMatch.Score > Score(XAuthLower, scorePattern).Score

\* Score("xAuth", "A") has returned with the match on the 'A'.
C22_Witness ==
    /\ Returned /\ scoreStr = XAuthCamel /\ scorePattern = << 65 >>
    /\ scoreMatch.Matched /\ scoreMatch.Positions = << 1 >>

\* What the k-th matched rune added to the score: the greedy scan matches a
\* prefix of the pattern at a prefix of the positions.
Contribution(k) ==
    Score(scoreStr, SubSeq(scorePattern, 1, k)).Score
    - Score(scoreStr, SubSeq(scorePattern, 1, k - 1)).Score

\* The bonuses a match at index i earns for what stands before it in t.
BoundaryBonus(t, i) ==
    (IF i > 0 /\ At(t, i - 1) \in SeparatorRunes THEN 16 ELSE 0)
    + (IF i > 0 /\ At(t, i) \in 65..90 /\ At(t, i - 1) \in 97..122 THEN 16 ELSE 0)

\* Every matched rune after the first that sits right behind the previous
\* match added 8 and its boundary bonuses, and no penalty.
AdjacentAddsEight ==
    (Returned /\ scoreMatch.Matched) =>
        \A k \in 2..Len(scoreMatch.Positions) :
            scoreMatch.Positions[k] = scoreMatch.Positions[k - 1] + 1 =>
                Contribution(k) = 8 + BoundaryBonus(scoreStr, scoreMatch.Positions[k])

\* A pattern of two or more runes was matched at 0, 2, 4, ..., over skipped
\* runes that are not separators.
GappedFromZero ==
    /\ Returned /\ scoreMatch.Matched /\ Len(scorePattern) >= 2
    /\ \A k \in 1..Len(scoreMatch.Positions) : scoreMatch.Positions[k] = 2 * (k - 1)
    /\ \A k \in 2..Len(scoreMatch.Positions) :
          At(scoreStr, scoreMatch.Positions[k] - 1) \notin SeparatorRunes

\* The matched runes of the text, one after the other.
MatchedRunes == [k \in 1..Len(scoreMatch.Positions) |-> At(scoreStr, scoreMatch.Positions[k])]

ContiguousBeatsGapped ==
    /\ Score(MatchedRunes, scorePattern).Positions = [k \in 1..Len(scorePattern) |-> k - 1]
    /\ Score(MatchedRunes, scorePattern).Score > scoreMatch.Score

AbcExampleHolds ==
    (Returned /\ scoreStr = AbcdefText /\ scorePattern = AbcPattern) =>
        scoreMatch.Score > Score(AxbxcxText, AbcPattern).Score

\* C23 as stated: a match right behind the previous match adds 8 and no gap
\* penalty, so the matched runes on their own, matched from index 0 without
\* gaps, score strictly higher than the same pattern matched with one
\* non-separator rune skipped before every match but the first;
\* Score("abcdef", "abc") is above Score("axbxcx", "abc").
C23_AdjacencyBonus ==
    /\ AdjacentAddsEight
    /\ GappedFromZero => ContiguousBeatsGapped
    /\ AbcExampleHolds

\* C23 amended: the same, for gapped matches in which no matched uppercase
\* rune follows a skipped lowercase rune.
C23_AdjacencyBonusNoCamel ==
    /\ AdjacentAddsEight
    /\ (GappedFromZero /\ CamelCount(scoreStr, scoreMatch.Positions) = 0) =>
          ContiguousBeatsGapped
    /\ AbcExampleHolds

\* Score("axbxcx", "abc") has returned with the matches at 0, 2 and 4.
C23_Witness ==
    /\ GappedFromZero /\ CamelCount(scoreStr, scoreMatch.Positions) = 0
    /\ scoreStr = AxbxcxText /\ Len(scoreMatch.Positions) = 3

\* C24: for a text 'a' + k separators + 'b' with k >= 1, scored against
\* "ab", one more separator lowers the score by exactly 1;
\* Score("a-b", "ab") is above Score("a-----b", "ab").
GapCall ==
    /\ Returned /\ scorePattern = AbPattern /\ Len(scoreStr) >= 3
    /\ scoreStr[1] = 97 /\ scoreStr[Len(scoreStr)] = 98
    /\ \A i \in 2..(Len(scoreStr) - 1) : scoreStr[i] \in SeparatorRunes

C24_GapPenaltyMonotone ==
    GapCall =>
        /\ scoreMatch.Matched
        /\ scoreMatch.Positions = << 0, Len(scoreStr) - 1 >>
        /\ \A s \in SeparatorRunes :
              LET longer == << 97 >> \o SubSeq(scoreStr, 2, Len(scoreStr) - 1)
                                     \o << s, 98 >>
              IN Score(longer, AbPattern).Score = scoreMatch.Score - 1
        /\ scoreStr = << 97, 45, 45, 45, 45, 45, 98 >> =>
              Score(<< 97, 45, 98 >>, AbPattern).Score > scoreMatch.Score

\* Score("a-----b", "ab") has returned.
C24_Witness ==
    /\ GapCall /\ scoreStr = << 97, 45, 45, 45, 45, 45, 98 >>
    /\ scoreMatch.Matched

\* ------------------------------------------ claims on re-filtering
\* The step is handled by Update and changes the query.
TextChanged == pc = "run" /\ m'.textInput # m.textInput

\* C25: in the branch picker, after every message that changes the query,
\* if the new filtered list has a selectable entry then the cursor is on a
\* selectable entry.
C25_FilterKeepsFocusSelectable ==
    [][ (IsBranch /\ TextChanged /\ HasSelectable(m'.filtered)) =>
            ~Disabled(m'.filtered, m'.selected)
      ]_vars

\* Where the clamp leaves the cursor in the new filtered list, before the fix-up.
Landing ==
    IF m.selected >= Len(m'.filtered) THEN max(0, Len(m'.filtered) - 1) ELSE m.selected

SelectableAfter(filtered, i) ==
    { j \in (i + 1)..(Len(filtered) - 1) : ~Disabled(filtered, j) }

\* The query changed, the cursor landed on a disabled entry, the entry after
\* it is disabled too and a selectable entry follows them.
LandedOnTwoDisabled ==
    /\ IsBranch /\ TextChanged
    /\ Landing + 1 < Len(m'.filtered)
    /\ Disabled(m'.filtered, Landing)
    /\ Disabled(m'.filtered, Landing + 1)
    /\ SelectableAfter(m'.filtered, Landing + 1) # {}

\* C26 as stated: the fix-up moves the cursor one step only, so after
\* landing on two disabled entries in a row the cursor is still on a
\* disabled entry.
C26_FixUpSingleStep ==
    [][ LandedOnTwoDisabled => Disabled(m'.filtered, m'.selected) ]_vars

\* C26 amended: the fix-up walks down as KeyDown does, so after landing on
\* two disabled entries in a row the cursor is on the first selectable
\* entry after them.
C26_FixUpWalksDown ==
    [][ LandedOnTwoDisabled =>
            /\ ~Disabled(m'.filtered, m'.selected)
            /\ m'.selected = Least(SelectableAfter(m'.filtered, Landing))
      ]_vars

\* Typing "a" has put two disabled entries ahead of the only selectable one,
\* which was first in entries, and the cursor is on it at index 2.
C26_Witness ==
    /\ IsBranch /\ pc = "run" /\ msg.Type = "KeyRunes" /\ Len(m.textInput) = 1
    /\ Len(m.filtered) = 3 /\ m.selected = 2
    /\ Disabled(m.filtered, 0) /\ Disabled(m.filtered, 1) /\ ~Disabled(m.filtered, 2)
    /\ ~m.entries[1].HasWorktree /\ m.entries[2].HasWorktree /\ m.entries[3].HasWorktree

\* ------------------------------------------------- greedy embedding
\* The indices after index `after` at which the text holds rune r, up to case.
Occurrences(t, r, after) ==
    { i \in (after + 1)..(Len(t) - 1) : Fold(At(t, i)) = Fold(r) }

\* C27: for every matched non-empty pattern, Positions[0] is the smallest
\* index at which the text holds the first pattern rune, up to case, and
\* each later position is the smallest index after the previous position at
\* which the text holds the next pattern rune; a later occurrence, such as
\* one after a separator, is not taken.
C27_GreedyLeftmost ==
    (Returned /\ scoreMatch.Matched /\ scorePattern # <<>>) =>
        /\ Len(scoreMatch.Positions) = Len(scorePattern)
        /\ \A k \in 1..Len(scorePattern) :
              LET after == IF k = 1 THEN -1 ELSE scoreMatch.Positions[k - 1]
                  occ == Occurrences(scoreStr, scorePattern[k], after)
              IN occ # {} /\ scoreMatch.Positions[k] = Least(occ)

\* Score("feature-auth", "fau") has returned with the 'a' matched at index 2,
\* ahead of the 'a' at index 8 that follows the separator.
C27_Witness ==
    /\ Returned /\ scoreStr = FeatureAuthText /\ scorePattern = FauPattern
    /\ scoreMatch.Matched /\ scoreMatch.Positions[2] = 2
    /\ 8 \in Occurrences(scoreStr, scorePattern[2], scoreMatch.Positions[1])
    /\ At(scoreStr, 7) \in SeparatorRunes

\* ------------------------------------------------------ session frame
\* The entries that filtered shows, without their matches.
Shown(f) ==
    IF IsBranch THEN [Name |-> f.Name, HasWorktree |-> f.HasWorktree]
    ELSE [Branch |-> f.Branch, Path |-> f.Path]

ShownList(filtered) == [i \in 1..Len(filtered) |-> Shown(filtered[i])]

\* Every element of filtered is an entry, and no entry is shown more often
\* than entries holds it.
FilteredDrawnFromEntries(md) ==
    LET shown == ShownList(md.filtered)
    IN \A e \in { shown[i] : i \in 1..Len(shown) } :
          /\ Count(md.entries, e) > 0
          /\ Count(shown, e) <= Count(md.entries, e)

\* C28: no message to either picker changes entries, and in every state,
\* the one before the first message included, filtered is drawn from
\* entries without invention or duplication.
C28_EntriesFrame ==
    [][ /\ m'.entries = m.entries
        /\ msg = NoMsg => FilteredDrawnFromEntries(m)
        /\ FilteredDrawnFromEntries(m')
      ]_vars

\* A query has hidden one copy-free entry and kept an entry that entries
\* holds twice, twice.
C28_Witness ==
    /\ pc = "run" /\ msg.Type = "KeyRunes" /\ Len(m.entries) = 3 /\ Len(m.filtered) = 2
    /\ Shown(m.filtered[1]) = Shown(m.filtered[2])
    /\ Count(m.entries, Shown(m.filtered[1])) = 2

\* C29: in the worktree picker, a message that changes the query leaves the
\* cursor at its index when that index is below the new len(filtered), puts
\* it on len(filtered) - 1 when the list has shrunk below it, and on 0 when
\* the list is empty; the best match does not attract the cursor and the
\* entry that had the focus does not keep it.
C29_PlainCursorKeepsIndex ==
    [][ (IsPlain /\ TextChanged) =>
            m'.selected = IF Len(m'.filtered) = 0 THEN 0
                          ELSE IF m.selected < Len(m'.filtered) THEN m.selected
                          ELSE Len(m'.filtered) - 1
      ]_vars

\* The last rune of the query was deleted: the list is back at three
\* entries in the order of entries, the query still is not empty and the
\* cursor is where the shorter list had put it, below the top.
C29_Witness ==
    /\ IsPlain /\ pc = "run" /\ msg.Type = "KeyBackspace" /\ Len(m.textInput) = 1
    /\ Len(m.filtered) = 3 /\ m.selected = 1
    /\ m.filtered[1].match.Score > m.filtered[3].match.Score

\* ------------------------------------------------------ case invariance
\* The runes that differ from r in ASCII case at most.
CaseVariantsOfRune(r) ==
    IF r \in 65..90 THEN { r, r + 32 }
    ELSE IF r \in 97..122 THEN { r, r - 32 }
    ELSE { r }

RECURSIVE CaseVariants(_)
CaseVariants(s) ==
    IF s = <<>> THEN { <<>> }
    ELSE { << h >> \o v : h \in CaseVariantsOfRune(Head(s)), v \in CaseVariants(Tail(s)) }

\* C30: Score gives the same Match for every ASCII-case variant of the
\* pattern; for every ASCII-case variant of the text it gives the same
\* Matched and the same Positions, and the same Score once the +16 of every
\* camelCase boundary matched is taken out.
C30_CaseInvariance ==
    Returned =>
        /\ \A p \in CaseVariants(scorePattern) : Score(scoreStr, p) = scoreMatch
        /\ \A t \in CaseVariants(scoreStr) :
              LET other == Score(t, scorePattern)
              IN /\ other.Matched = scoreMatch.Matched
                 /\ other.Positions = scoreMatch.Positions
                 /\ other.Score - 16 * CamelCount(t, other.Positions)
                      = scoreMatch.Score - 16 * CamelCount(scoreStr, scoreMatch.Positions)

\* Score("FeatureAuth", "featureauth") has returned with all eleven runes
\* matched and the camelCase boundary at 'A' among them.
C30_Witness ==
    /\ Returned /\ scoreStr = FeatureAuthCamel /\ scorePattern = FeatureAuthLower
    /\ scoreMatch.Matched /\ Len(scoreMatch.Positions) = 11
    /\ CamelCount(scoreStr, scoreMatch.Positions) = 1

TypeOK ==
    /\ kind \in {"model", "branchModel"}
    /\ pc \in {"run", "quit", "done"}
    /\ m.selected \in 0..MaxEntries
    /\ m.cancelled \in BOOLEAN
    /\ Len(m.textInput) <= MaxQueryLen
====
